---- MODULE Spec2Model ----
(***************************************************************************)
(* A model of numpyboxedprint.parr: the entry formatter (fmt_entries,      *)
(* fmt_entry), the regular-expression extraction it rests on, and the      *)
(* recursive layout engine (fmt_arr, box, vstack, hstack).                 *)
(*                                                                         *)
(* A string is a sequence of one-character cells.  A digit, sign, letter   *)
(* or blank is the one-character string itself; the box-drawing characters *)
(* are the cells "tl" "tr" "bl" "br" (corners), "h" "v" (solid rules) and  *)
(* "hd" "vd" (dashed rules).  An ndarray is a record with its dtype, its   *)
(* shape and its entries in row-major (arr.flat) order.  The numeric       *)
(* entries of the input are identified with the text np.array2string       *)
(* returns for them (field text), which is all the program reads of them;  *)
(* max_precision is passed on to np.array2string and read nowhere else.    *)
(***************************************************************************)
EXTENDS Integers, Sequences, FiniteSets, TLC

VARIABLES arr, dot_odds, bracket_inner_1D, box_inner_1D, pc, entries, out, err

vars == <<arr, dot_odds, bracket_inner_1D, box_inner_1D, pc, entries, out, err>>

\* Bounds of the model: number of dimensions, length of one dimension,
\* number of entries of the input.
MaxNdim == 3
MaxDim == 3
MaxSize == 6

(***************************************************************************)
(* Generic helpers                                                         *)
(***************************************************************************)
Max(S) == CHOOSE x \in S : \A y \in S : y <= x
Min(S) == CHOOSE x \in S : \A y \in S : x <= y

\* Python's max() over an iterable of ints: ValueError on an empty one is
\* handled by the callers, which test for emptiness first.
MaxOf(s) == Max({s[i] : i \in DOMAIN s})

RECURSIVE Concat(_)
\* "".join(seq of strings)
Concat(ss) == IF ss = <<>> THEN <<>> ELSE Head(ss) \o Concat(Tail(ss))

\* join that leaves the separator out
JoinWithout(sep, ss) == Concat(ss)

RECURSIVE JoinWith(_, _)
\* sep.join(seq of strings)
JoinWith(sep, ss) ==
    IF ss = <<>> THEN <<>>
    ELSE IF Len(ss) = 1 THEN Head(ss)
    ELSE Head(ss) \o sep \o JoinWith(sep, Tail(ss))

RECURSIVE Prod(_)
Prod(s) == IF s = <<>> THEN 1 ELSE Head(s) * Prod(Tail(s))

RECURSIVE SumSeq(_)
SumSeq(s) == IF s = <<>> THEN 0 ELSE Head(s) + SumSeq(Tail(s))

\* a sequence given by its elements, as the tuple of them
Tup(f) == f \o <<>>

Repeat(c, n) == Tup([i \in 1..n |-> c])

\* str.ljust / str.rjust with the blank as fill character
str_ljust(s, w) == IF Len(s) >= w THEN s ELSE s \o Repeat(" ", w - Len(s))
str_rjust(s, w) == IF Len(s) >= w THEN s ELSE Repeat(" ", w - Len(s)) \o s

\* The result of a call: a value, or a raised exception.
Ok(v) == [ok |-> TRUE, val |-> v, err |-> ""]
Raise(e) == [ok |-> FALSE, val |-> <<>>, err |-> e]

(***************************************************************************)
(* The regular expressions of fmt_entries.  A pattern is a sequence of     *)
(* items; an item is a greedy quantifier over a character class, or the    *)
(* optional exponent group (e[+-][0-9]+)?.  Field grp is the capture group *)
(* the item lies in.                                                       *)
(***************************************************************************)
Digits == {"0", "1", "2", "3", "4", "5", "6", "7", "8", "9"}
Signs == {"+", "-"}

\* one item: class cls, at least lo repetitions, one or unboundedly many
Item(cls, lo, many, grp) == [cls |-> cls, lo |-> lo, many |-> many, grp |-> grp]

\* [+-]?[0-9]+  resp.  [+-]?[0-9]+.  resp.  [+-][0-9]+.   (note the '.', which is
\* not escaped in the source and so matches any character but a newline)
IntItems(g) == <<Item("sign", 0, FALSE, g), Item("digit", 1, TRUE, g)>>
NumHead(g, signlo) ==
    <<Item("sign", signlo, FALSE, g), Item("digit", 1, TRUE, g), Item("any", 1, FALSE, g)>>
\* ([0-9]*)(e[+-][0-9]+)?
NumTail(g) == <<Item("digit", 0, TRUE, g), Item("exp", 0, FALSE, g + 1)>>

\* np.issubdtype(arr.dtype, ...) selects the pattern; otherwise NotImplementedError
Supported == {"int", "float", "complex"}

pattern(dtype) ==
    CASE dtype = "int" -> IntItems(1)
      [] dtype = "float" -> NumHead(1, 0) \o NumTail(2)
      [] dtype = "complex" ->
            NumHead(1, 0) \o NumTail(2) \o NumHead(4, 1) \o NumTail(5)
              \o <<Item("j", 1, FALSE, 7)>>
      [] OTHER -> <<>>

\* ljust with every part left justified
ljust_all_left(dtype) ==
    CASE dtype = "int" -> <<TRUE>>
      [] dtype = "float" -> <<TRUE, TRUE, TRUE>>
      [] dtype = "complex" -> <<TRUE, TRUE, TRUE, TRUE, TRUE, TRUE, TRUE>>
      [] OTHER -> <<>>

\* whether each part is left justified (1) or right justified (0)
ljust(dtype) ==
    CASE dtype = "int" -> <<FALSE>>
      [] dtype = "float" -> <<FALSE, TRUE, TRUE>>
      [] dtype = "complex" -> <<FALSE, TRUE, TRUE, FALSE, TRUE, TRUE, FALSE>>
      [] OTHER -> <<>>

InClass(c, cls) ==
    CASE cls = "sign" -> c \in Signs
      [] cls = "digit" -> c \in Digits
      [] cls = "any" -> c # "\n"
      [] cls = "j" -> c = "j"
      [] OTHER -> FALSE

RECURSIVE RunLen(_, _, _)
\* the number of consecutive characters of class cls in t from pos on
RunLen(t, pos, cls) ==
    IF pos > Len(t) \/ ~InClass(t[pos], cls) THEN 0
    ELSE 1 + RunLen(t, pos + 1, cls)

\* the greatest length with which item it can match t at pos (-1: none)
ItemMax(it, t, pos) ==
    IF it.cls = "exp"
    THEN IF /\ pos + 2 <= Len(t)
            /\ t[pos] = "e"
            /\ t[pos + 1] \in Signs
            /\ RunLen(t, pos + 2, "digit") >= 1
         THEN 2 + RunLen(t, pos + 2, "digit") ELSE 0
    ELSE LET run == RunLen(t, pos, it.cls)
             most == IF it.many \/ run = 0 THEN run ELSE 1
         IN  IF most >= it.lo THEN most ELSE -1

\* the least such length; the exponent group is absent (0) or e, a sign and
\* at least one digit (3)
ItemOk(it, n) == IF it.cls = "exp" THEN n = 0 \/ n >= 3 ELSE n >= it.lo

NoMatch == <<-1>>

RECURSIVE MatchFrom(_, _, _, _)
RECURSIVE TryLen(_, _, _, _, _)
\* The backtracking matcher: the lengths of items k.. matching t at pos, or
\* NoMatch.  Each quantifier is greedy: it takes the longest repetition with
\* which the rest of the pattern still matches.
MatchFrom(t, items, k, pos) ==
    IF k > Len(items) THEN <<>>
    ELSE TryLen(t, items, k, pos, ItemMax(items[k], t, pos))

\* item k with n repetitions, then with fewer
TryLen(t, items, k, pos, n) ==
    IF n < 0 THEN NoMatch
    ELSE IF ~ItemOk(items[k], n) THEN TryLen(t, items, k, pos, n - 1)
    ELSE LET rest == MatchFrom(t, items, k + 1, pos + n)
         IN  IF rest # NoMatch THEN <<n>> \o rest
             ELSE TryLen(t, items, k, pos, n - 1)

\* The text of capture group g of a match with item lengths lens starting at
\* start; a group that took no part in the match is None, which line 44
\* replaces with "".
GroupText(t, items, lens, start, g) ==
    LET before == SumSeq([k \in 1..Len(items) |->
                           IF items[k].grp < g THEN lens[k] ELSE 0])
        width == SumSeq([k \in 1..Len(items) |->
                           IF items[k].grp = g THEN lens[k] ELSE 0])
    IN  SubSeq(t, start + before, start + before + width - 1)

NGroups(items) == IF items = <<>> THEN 0 ELSE Max({items[k].grp : k \in DOMAIN items})

RECURSIVE SearchFrom(_, _, _)
\* the leftmost position from s on at which the pattern matches
SearchFrom(t, items, s) ==
    IF s > Len(t) + 1 THEN Raise("AttributeError")
    ELSE LET lens == MatchFrom(t, items, 1, s)
         IN  IF lens = NoMatch THEN SearchFrom(t, items, s + 1)
             ELSE Ok(Tup([g \in 1..NGroups(items) |-> GroupText(t, items, lens, s, g)]))

\* re.search(pattern, s).groups() with None replaced by ""; the call of
\* groups() on no match (None) is an AttributeError
re_search(items, t) == SearchFrom(t, items, 1)

(***************************************************************************)
(* Entry formatting                                                        *)
(***************************************************************************)
\* fmt_entry padding only the parts that are right justified
fmt_entry_rjust_only(parts, maxlens, lj) ==
    Concat(Tup([k \in 1..Min({Len(parts), Len(maxlens), Len(lj)}) |->
                  IF lj[k] THEN parts[k] ELSE str_rjust(parts[k], maxlens[k])]))

\* fmt_entry: each part padded to its maximum length, on the side ljust says
fmt_entry(parts, maxlens, lj) ==
    Concat(Tup([k \in 1..Min({Len(parts), Len(maxlens), Len(lj)}) |->
                  IF lj[k] THEN str_ljust(parts[k], maxlens[k])
                           ELSE str_rjust(parts[k], maxlens[k])]))

\* maxlens of line 47: per group, the longest part; zip(*regroups) of an
\* empty list has no groups at all
MaxLens(regroups) ==
    IF regroups = <<>> THEN <<>>
    ELSE Tup([g \in 1..Len(regroups[1]) |->
                Max({Len(regroups[i][g]) : i \in DOMAIN regroups})])

\* fmt_entries: the array of aligned strings, of the shape of a
fmt_entries(a) ==
    IF a.dtype \notin Supported THEN Raise("NotImplementedError")
    ELSE LET found == Tup([i \in DOMAIN a.text |-> re_search(pattern(a.dtype), a.text[i])])
         IN  IF \E i \in DOMAIN found : ~found[i].ok THEN Raise("AttributeError")
             ELSE LET regroups == Tup([i \in DOMAIN found |-> found[i].val])
                      maxlens == MaxLens(regroups)
                  IN  Ok([shape |-> a.shape,
                          flat |-> Tup([i \in DOMAIN regroups |->
                                      fmt_entry(regroups[i], maxlens, ljust(a.dtype))])])

(***************************************************************************)
(* Layout                                                                  *)
(***************************************************************************)
\* box with a top one character short
box_short_top(lines, dotted) ==
    IF lines = <<>> THEN Raise("ValueError")
    ELSE LET h == IF dotted THEN "hd" ELSE "h"
             v == IF dotted THEN "vd" ELSE "v"
             width == MaxOf([i \in DOMAIN lines |-> Len(lines[i])])
             top == <<"tl">> \o Repeat(h, width - 1) \o <<"tr">>
             bot == <<"bl">> \o Repeat(h, width) \o <<"br">>
             mid == Tup([i \in DOMAIN lines |-> <<v>> \o str_ljust(lines[i], width) \o <<v>>])
         IN  Ok(<<top>> \o mid \o <<bot>>)

\* box: a top, the lines between two vertical rules, a bottom; max() of no
\* lines is a ValueError
box(lines, dotted) ==
    IF lines = <<>> THEN Raise("ValueError")
    ELSE LET h == IF dotted THEN "hd" ELSE "h"
             v == IF dotted THEN "vd" ELSE "v"
             width == MaxOf([i \in DOMAIN lines |-> Len(lines[i])])
             top == <<"tl">> \o Repeat(h, width) \o <<"tr">>
             bot == <<"bl">> \o Repeat(h, width) \o <<"br">>
             mid == Tup([i \in DOMAIN lines |-> <<v>> \o str_ljust(lines[i], width) \o <<v>>])
         IN  Ok(<<top>> \o mid \o <<bot>>)

\* vstack: all lines of all blocks, padded to the widest
vstack(blocks) ==
    LET lines == Concat(blocks)
    IN  IF lines = <<>> THEN Raise("ValueError")
        ELSE LET width == MaxOf([i \in DOMAIN lines |-> Len(lines[i])])
             IN  Ok(Tup([i \in DOMAIN lines |-> str_ljust(lines[i], width)]))

\* hstack: the blocks padded at the bottom to one height, then line k of all
\* blocks joined with spacing blanks between them
hstack(blocks, spacing) ==
    IF blocks = <<>> THEN Raise("ValueError")
    ELSE IF \E b \in DOMAIN blocks : blocks[b] = <<>> THEN Raise("IndexError")
    ELSE LET height == MaxOf([b \in DOMAIN blocks |-> Len(blocks[b])])
             padded == Tup([b \in DOMAIN blocks |->
                              blocks[b] \o Repeat(Repeat(" ", Len(blocks[b][1])),
                                                  height - Len(blocks[b]))])
         IN  Ok(Tup([k \in 1..height |->
                       JoinWith(Repeat(" ", spacing),
                                Tup([b \in DOMAIN padded |-> padded[b][k]]))]))

ndim(a) == Len(a.shape)

\* a[i], the i-th slice along the outermost dimension
Sub(a, i) ==
    LET sz == Prod(Tail(a.shape))
    IN  [shape |-> Tail(a.shape), flat |-> SubSeq(a.flat, (i - 1) * sz + 1, i * sz)]

RECURSIVE fmt_arr(_, _, _, _)
\* fmt_arr stacking vertically at odd depth and side by side at even depth
fmt_arr_swapped(a, dots, bracket, boxed) ==
    IF ndim(a) = 0 THEN Ok(<<a.flat[1]>>)
    ELSE IF bracket /\ ndim(a) = 1
    THEN Ok(<< <<"[">> \o JoinWith(<<" ">>, a.flat) \o <<"]">> >>)
    ELSE IF ~boxed /\ ndim(a) = 1 THEN Ok(<<JoinWith(<<" ">>, a.flat)>>)
    ELSE LET fmtted == Tup([i \in 1..a.shape[1] |-> fmt_arr(Sub(a, i), dots, bracket, boxed)])
             failed == {i \in DOMAIN fmtted : ~fmtted[i].ok}
             blocks == Tup([i \in DOMAIN fmtted |-> fmtted[i].val])
         IN  IF failed # {} THEN fmtted[Min(failed)]
             ELSE IF ndim(a) % 2 = 1
             THEN LET st == vstack(blocks)
                  IN  IF st.ok THEN box(st.val, FALSE) ELSE st
             ELSE LET st == hstack(blocks, 0)
                  IN  IF st.ok THEN box(st.val, dots) ELSE st

\* fmt_arr under the options in force (the closure variables of parr)
fmt_arr(a, dots, bracket, boxed) ==
    IF ndim(a) = 0 THEN Ok(<<a.flat[1]>>)
    ELSE IF bracket /\ ndim(a) = 1
    THEN Ok(<< <<"[">> \o JoinWith(<<" ">>, a.flat) \o <<"]">> >>)
    ELSE IF ~boxed /\ ndim(a) = 1 THEN Ok(<<JoinWith(<<" ">>, a.flat)>>)
    ELSE LET fmtted == Tup([i \in 1..a.shape[1] |-> fmt_arr(Sub(a, i), dots, bracket, boxed)])
             failed == {i \in DOMAIN fmtted : ~fmtted[i].ok}
             blocks == Tup([i \in DOMAIN fmtted |-> fmtted[i].val])
         IN  IF failed # {} THEN fmtted[Min(failed)]
             ELSE IF ndim(a) % 2 = 0
             THEN LET st == vstack(blocks)
                  IN  IF st.ok THEN box(st.val, FALSE) ELSE st
             ELSE LET st == hstack(blocks, 0)
                  IN  IF st.ok THEN box(st.val, dots) ELSE st

(***************************************************************************)
(* The inputs                                                              *)
(***************************************************************************)
\* np.array2string of integer scalars
IntTexts ==
    << <<"7">>,   \* 7
       <<"-", "1">>,   \* -1
       <<"1", "2">>,   \* 12
       <<"-", "1", "0", "0">> >>   \* -100
\* np.array2string of floating scalars (floatmode maxprec), nan included
FloatTexts ==
    << <<"1", ".", "5">>,   \* 1.5
       <<"-", "2", ".", "2", "5">>,   \* -2.25
       <<"-", "1", "0", ".">>,   \* -10.
       <<"1", ".", "e", "+", "1", "0">>,   \* 1.e+10
       <<"2", ".", "5", "e", "-", "0", "5">>,   \* 2.5e-05
       <<"n", "a", "n">> >>   \* nan
\* np.array2string of complex scalars
ComplexTexts ==
    << <<"1", ".", "+", "2", ".", "j">>,   \* 1.+2.j
       <<"-", "1", ".", "5", "-", "1", "0", ".", "2", "5", "j">>,   \* -1.5-10.25j
       <<"1", ".", "e", "+", "1", "0", "+", "0", ".", "j">>,   \* 1.e+10+0.j
       <<"0", ".", "+", "2", ".", "5", "e", "-", "0", "5", "j">>,   \* 0.+2.5e-05j
       <<"2", ".", "5", "e", "+", "1", "0", "-", "1", ".", "e", "-", "0", "5", "j">>,   \* 2.5e+10-1.e-05j
       <<"-", "1", "2", ".", "-", "3", ".", "j">> >>   \* -12.-3.j
\* np.array2string of booleans, a dtype that is not supported
BoolTexts ==
    << <<"T", "r", "u", "e">>,   \* True
       <<"F", "a", "l", "s", "e">> >>   \* False
\* integer texts once a formatter is set through np.set_printoptions (thousands
\* separators, hex)
RawIntTexts ==
    << <<"1", "2">>,   \* 12
       <<"-", "1">>,   \* -1
       <<"1", ",", "0", "0", "0">>,   \* 1,000
       <<"0", "x", "c">> >>   \* 0xc
\* floating texts under ambient print options (sign=' ', a formatter)
RawFloatTexts ==
    << <<"1", ".", "5">>,   \* 1.5
       <<" ", "1", ".", "5">>,   \* ' 1.5'
       <<"1", ",", "5">>,   \* 1,5
       <<"1", "2">>,   \* 12
       <<"n", "a", "n">> >>   \* nan
\* complex texts under ambient print options
RawComplexTexts ==
    << <<"1", ".", "+", "2", ".", "j">>,   \* 1.+2.j
       <<" ", "1", ".", "+", "2", ".", "j">>,   \* ' 1.+2.j'
       <<"1", "2", "+", "3", ".", "j">>,   \* 12+3.j
       <<"(", "1", ".", "+", "2", ".", "j", ")">> >>   \* (1.+2.j)

DTypes == {"int", "float", "complex", "bool"}

\* the texts np.array2string returns with numpy's print options at their defaults
DefaultTexts ==
    [d \in DTypes |->
       CASE d = "int" -> IntTexts
         [] d = "float" -> FloatTexts
         [] d = "complex" -> ComplexTexts
         [] OTHER -> BoolTexts]

\* the texts it may return once the ambient print options are changed
RawTexts ==
    [d \in DTypes |->
       CASE d = "int" -> RawIntTexts
         [] d = "float" -> RawFloatTexts
         [] d = "complex" -> RawComplexTexts
         [] OTHER -> BoolTexts]

Shapes ==
    {sh \in UNION {[1..n -> 0..MaxDim] : n \in 0..MaxNdim} : Prod(sh) <= MaxSize}

\* two texts of a pool; the entries of an input alternate between them
Pairs(p) == {<<p[q[1]], p[q[2]]>> : q \in {r \in (DOMAIN p) \X (DOMAIN p) : r[1] <= r[2]}}

ndarray(d, sh, pat) ==
    [isarray |-> TRUE, dtype |-> d, shape |-> sh,
     text |-> Tup([k \in 1..Prod(sh) |-> pat[((k - 1) % 2) + 1]])]

\* an argument that is no np.ndarray
NotArray == [isarray |-> FALSE, dtype |-> "none", shape |-> <<>>, text |-> <<>>]

NoEntries == [shape |-> <<>>, flat |-> <<>>]

InitOver(texts) ==
    /\ arr \in {NotArray} \cup
               UNION {{ndarray(d, sh, pat) : sh \in Shapes, pat \in Pairs(texts[d])} :
                        d \in DTypes}
    /\ dot_odds \in BOOLEAN
    /\ bracket_inner_1D \in BOOLEAN
    /\ box_inner_1D \in BOOLEAN
    /\ pc = "call"
    /\ entries = NoEntries
    /\ out = <<>>
    /\ err = ""

Init == InitOver(DefaultTexts)

InitRaw == InitOver(RawTexts)

(***************************************************************************)
(* parr, in two steps: the type check, the forcing of box_inner_1D and     *)
(* fmt_entries (lines 12, 92 and the argument of line 93); then fmt_arr    *)
(* and print (line 93).                                                    *)
(***************************************************************************)
\* line 12
ParrTypeError ==
    /\ pc = "call"
    /\ ~arr.isarray
    /\ pc' = "raised"
    /\ err' = "TypeError"
    /\ UNCHANGED <<arr, dot_odds, bracket_inner_1D, box_inner_1D, entries, out>>

\* line 92: a 1-D input is boxed whatever box_inner_1D was
ForceBox(a, boxed) == IF Len(a.shape) = 1 THEN TRUE ELSE boxed

ParrFmtEntries ==
    /\ pc = "call"
    /\ arr.isarray
    /\ LET r == fmt_entries(arr)
       IN
        /\ r.ok
        /\ box_inner_1D' = ForceBox(arr, box_inner_1D)
        /\ entries' = r.val
        /\ pc' = "formatted"
        /\ UNCHANGED <<arr, dot_odds, bracket_inner_1D, out, err>>

ParrFmtEntriesRaise ==
    /\ pc = "call"
    /\ arr.isarray
    /\ LET r == fmt_entries(arr)
       IN
        /\ ~r.ok
        /\ box_inner_1D' = ForceBox(arr, box_inner_1D)
        /\ pc' = "raised"
        /\ err' = r.err
        /\ UNCHANGED <<arr, dot_odds, bracket_inner_1D, entries, out>>

ParrPrint ==
    /\ pc = "formatted"
    /\ LET r == fmt_arr(entries, dot_odds, bracket_inner_1D, box_inner_1D)
       IN
        /\ r.ok
        /\ out' = r.val
        /\ pc' = "printed"
        /\ UNCHANGED <<arr, dot_odds, bracket_inner_1D, box_inner_1D, entries, err>>

ParrPrintRaise ==
    /\ pc = "formatted"
    /\ LET r == fmt_arr(entries, dot_odds, bracket_inner_1D, box_inner_1D)
       IN
        /\ ~r.ok
        /\ pc' = "raised"
        /\ err' = r.err
        /\ UNCHANGED <<arr, dot_odds, bracket_inner_1D, box_inner_1D, entries, out>>

Next ==
    \/ ParrTypeError
    \/ ParrFmtEntries
    \/ ParrFmtEntriesRaise
    \/ ParrPrint
    \/ ParrPrintRaise

Spec == Init /\ [][Next]_vars

SpecRaw == InitRaw /\ [][Next]_vars

(***************************************************************************)
(* Reading the results: columns of characters in an aligned entry, and the *)
(* grammar of np.array2string texts.                                       *)
(***************************************************************************)
\* the first index from `from` on at which s has character c, 0 if none
IndexOf(s, c, from) ==
    LET hits == {k \in from..Len(s) : s[k] = c}
    IN  IF hits = {} THEN 0 ELSE Min(hits)

NotBlank(c) == c # " "
Unpadded(s) == SelectSeq(s, NotBlank)

\* column of the decimal point of the real and of the imaginary component
DotCol(e) == IndexOf(e, ".", 1)
ImagDotCol(e) == IF DotCol(e) = 0 THEN 0 ELSE IndexOf(e, ".", DotCol(e) + 1)

\* column of the exponent marker of the real component (before the decimal
\* point of the imaginary one, if any) and of the imaginary component
ExpCol(e) ==
    LET k == IndexOf(e, "e", DotCol(e) + 1)
    IN  IF ImagDotCol(e) > 0 /\ k > ImagDotCol(e) THEN 0 ELSE k
ImagExpCol(e) == IF ImagDotCol(e) = 0 THEN 0 ELSE IndexOf(e, "e", ImagDotCol(e) + 1)

\* column of a leading sign (the first character that is not a blank)
LeadSignCol(e) ==
    LET k == Min({i \in DOMAIN e : e[i] # " "} \cup {Len(e) + 1})
    IN  IF k <= Len(e) /\ e[k] \in Signs THEN k ELSE 0

\* column of the sign between the real and the imaginary component: the
\* first sign after the real decimal point that is not the exponent's
MidSignCol(e) ==
    LET hits == {k \in (DotCol(e) + 1)..Len(e) : e[k] \in Signs /\ e[k - 1] # "e"}
    IN  IF DotCol(e) = 0 \/ hits = {} THEN 0 ELSE Min(hits)

IsDigits(s) == \A k \in DOMAIN s : s[k] \in Digits
\* optional sign and digits
IsInt(s) ==
    /\ s # <<>>
    /\ IF s[1] \in Signs THEN Len(s) >= 2 /\ IsDigits(Tail(s)) ELSE IsDigits(s)
\* e, a sign, digits
IsExp(s) == Len(s) >= 3 /\ s[1] = "e" /\ s[2] \in Signs /\ IsDigits(SubSeq(s, 3, Len(s)))
\* optional (or required) sign, digits, a decimal point, digits, optional exponent
IsReal(s, signed) ==
    /\ signed => (s # <<>> /\ s[1] \in Signs)
    /\ \E d \in DOMAIN s :
          /\ s[d] = "."
          /\ IsInt(SubSeq(s, 1, d - 1))
          /\ \E k \in d..Len(s) :
                /\ IsDigits(SubSeq(s, d + 1, k))
                /\ (k = Len(s) \/ IsExp(SubSeq(s, k + 1, Len(s))))
\* two such numbers and a trailing j
IsComplex(s) ==
    /\ s # <<>>
    /\ s[Len(s)] = "j"
    /\ \E m \in 1..(Len(s) - 1) :
          IsReal(SubSeq(s, 1, m), FALSE) /\ IsReal(SubSeq(s, m + 1, Len(s) - 1), TRUE)

\* text t conforms in full to the grammar of kind d
Conforms(d, t) ==
    CASE d = "int" -> IsInt(t)
      [] d = "float" -> IsReal(t, FALSE)
      [] d = "complex" -> IsComplex(t)
      [] OTHER -> FALSE

\* fmt_entries has returned
Formatted == pc \in {"formatted", "printed"} \/ (pc = "raised" /\ entries # NoEntries)

\* the parts re.search extracts from entry i of the input
PartsOf(i) == re_search(pattern(arr.dtype), arr.text[i]).val

\* the options as parr's defaults set them
DefaultOptions == dot_odds /\ ~bracket_inner_1D /\ ~box_inner_1D

(***************************************************************************)
(* C1: every line of the printed block has the same length.                *)
(***************************************************************************)
NoRaggedOutput ==
    pc = "printed" => \A i, j \in DOMAIN out : Len(out[i]) = Len(out[j])

NoRaggedOutputWitness ==
    /\ pc = "printed"
    /\ Len(arr.shape) = 3
    /\ Len(out) >= 6
    /\ \E i, j \in DOMAIN arr.text : Len(arr.text[i]) # Len(arr.text[j])

(***************************************************************************)
(* C2: fmt_entries returns an array of the shape of the input, entry i     *)
(* being the text of input entry i with blanks added, and every entry as   *)
(* long as the sum over the parts of the longest part of that role.        *)
(***************************************************************************)
EntriesShapeAndLength ==
    Formatted =>
       LET parts == Tup([i \in DOMAIN arr.text |-> PartsOf(i)])
           longest == IF parts = <<>> THEN <<>>
                      ELSE Tup([g \in DOMAIN parts[1] |->
                                  Max({Len(parts[i][g]) : i \in DOMAIN parts})])
           total == SumSeq(longest)
       IN  /\ entries.shape = arr.shape
           /\ Len(entries.flat) = Len(arr.text)
           /\ \A i \in DOMAIN entries.flat :
                 /\ Unpadded(entries.flat[i]) = arr.text[i]
                 /\ Len(entries.flat[i]) = total

EntriesShapeAndLengthWitness ==
    /\ Formatted
    /\ arr.dtype = "complex"
    /\ Len(arr.shape) = 2
    /\ \E i, j \in DOMAIN arr.text :
          /\ Len(PartsOf(i)[1]) # Len(PartsOf(j)[1])
          /\ Len(PartsOf(i)[5]) # Len(PartsOf(j)[5])

(***************************************************************************)
(* C3: in a real or complex grid the decimal point of the real component   *)
(* is at the same column in every aligned entry, so is the decimal point   *)
(* of the imaginary component, and so is the exponent marker of either     *)
(* component in the entries that have one.                                 *)
(***************************************************************************)
\* the columns, over all entries, at which col finds its character
ColsOf(col(_)) == {col(entries.flat[i]) : i \in DOMAIN entries.flat}
\* the character is there in every entry, at one column
SameCol(col(_)) == 0 \notin ColsOf(col) /\ Cardinality(ColsOf(col)) <= 1
\* the character is at one column in the entries that have it
SameColWherePresent(col(_)) == Cardinality(ColsOf(col) \ {0}) <= 1

DecimalPointsAligned ==
    (Formatted /\ arr.dtype \in {"float", "complex"}) =>
       /\ SameCol(DotCol)
       /\ arr.dtype = "complex" => SameCol(ImagDotCol)
       /\ SameColWherePresent(ExpCol)
       /\ SameColWherePresent(ImagExpCol)

DecimalPointsAlignedWitness ==
    /\ Formatted
    /\ arr.dtype = "complex"
    /\ \E i, j \in DOMAIN entries.flat :
          /\ ExpCol(entries.flat[i]) > 0
          /\ ExpCol(entries.flat[j]) > 0
          /\ ImagExpCol(entries.flat[j]) > 0
          /\ IndexOf(arr.text[i], "e", 1) # IndexOf(arr.text[j], "e", 1)

(***************************************************************************)
(* C4: in a real or complex grid every entry with a leading sign has it at *)
(* the same column, and in a complex grid the sign between the real and    *)
(* the imaginary component is at the same column in every entry.           *)
(***************************************************************************)
SignsAligned ==
    (Formatted /\ arr.dtype \in {"float", "complex"}) =>
       /\ SameColWherePresent(LeadSignCol)
       /\ arr.dtype = "complex" => SameCol(MidSignCol)

(***************************************************************************)
(* C5: a 1-D input is printed as a 3-line block, a top border, one content *)
(* line between two vertical rules and a bottom border, whatever the       *)
(* options are.                                                            *)
(***************************************************************************)
OneDimInputBoxed ==
    (pc = "printed" /\ Len(arr.shape) = 1) =>
       /\ Len(out) = 3
       /\ Head(out[1]) = "tl" /\ out[1][Len(out[1])] = "tr"
       /\ Head(out[2]) \in {"v", "vd"} /\ out[2][Len(out[2])] \in {"v", "vd"}
       /\ Head(out[3]) = "bl" /\ out[3][Len(out[3])] = "br"

(***************************************************************************)
(* C6: a grid of N >= 2 dimensions is the box around its rendered slices:  *)
(* stacked vertically in a solid box if N is even, side by side without    *)
(* spacing in a box that is dashed exactly if dot_odds if N is odd.        *)
(***************************************************************************)
DepthParity ==
    (pc = "printed" /\ Len(arr.shape) >= 2) =>
       LET n == entries.shape[1]
           subs == Tup([i \in 1..n |->
                          fmt_arr(Sub(entries, i), dot_odds, bracket_inner_1D,
                                  box_inner_1D).val])
           even == Len(arr.shape) % 2 = 0
           h == IF even \/ ~dot_odds THEN "h" ELSE "hd"
           v == IF even \/ ~dot_odds THEN "v" ELSE "vd"
           inner == IF even THEN Concat(subs)
                    ELSE Tup([k \in 1..Len(subs[1]) |->
                                Concat(Tup([i \in 1..n |-> subs[i][k]]))])
           w == Len(out[1]) - 2
       IN  /\ Len(out) = Len(inner) + 2
           /\ out[1] = <<"tl">> \o Repeat(h, w) \o <<"tr">>
           /\ out[Len(out)] = <<"bl">> \o Repeat(h, w) \o <<"br">>
           /\ \A k \in DOMAIN inner : out[k + 1] = <<v>> \o inner[k] \o <<v>>

DepthParityWitness ==
    /\ pc = "printed"
    /\ Len(arr.shape) = 3
    /\ arr.shape[1] >= 2
    /\ arr.shape[2] >= 2
    /\ arr.shape[3] >= 1
    /\ dot_odds
    /\ arr.text[1] # arr.text[2]

(***************************************************************************)
(* C7: with the default options a grid of shape (2,3) is printed as a      *)
(* solid box around two stacked rows.  As claimed, each row is its three   *)
(* entries side by side in a dashed box; as amended, each row is the bare  *)
(* line of its three entries joined by single blanks.                      *)
(***************************************************************************)
TwoByThreeRowsDashed ==
    (pc = "printed" /\ arr.shape = <<2, 3>> /\ DefaultOptions) =>
       LET cells(r) == Concat(SubSeq(entries.flat, 3 * r - 2, 3 * r))
           w == Len(cells(1))
           dtop == <<"v", "tl">> \o Repeat("hd", w) \o <<"tr", "v">>
           dmid(r) == <<"v", "vd">> \o cells(r) \o <<"vd", "v">>
           dbot == <<"v", "bl">> \o Repeat("hd", w) \o <<"br", "v">>
       IN  out = << <<"tl">> \o Repeat("h", w + 2) \o <<"tr">>,
                    dtop, dmid(1), dbot, dtop, dmid(2), dbot,
                    <<"bl">> \o Repeat("h", w + 2) \o <<"br">> >>

TwoByThreeRowsBare ==
    (pc = "printed" /\ arr.shape = <<2, 3>> /\ DefaultOptions) =>
       LET e == entries.flat
           row(r) == e[3 * r - 2] \o <<" ">> \o e[3 * r - 1] \o <<" ">> \o e[3 * r]
           w == Len(row(1))
       IN  out = << <<"tl">> \o Repeat("h", w) \o <<"tr">>,
                    <<"v">> \o row(1) \o <<"v">>,
                    <<"v">> \o row(2) \o <<"v">>,
                    <<"bl">> \o Repeat("h", w) \o <<"br">> >>

TwoByThreeWitness ==
    /\ pc = "printed"
    /\ arr.shape = <<2, 3>>
    /\ DefaultOptions
    /\ Len(arr.text[1]) # Len(arr.text[2])

(***************************************************************************)
(* C8: the content line of a 1-D grid is its entries joined by single      *)
(* blanks in every styling: between [ and ] with bracket_inner_1D, between *)
(* the vertical rules of the box when boxed.                               *)
(***************************************************************************)
OneDimContentSpaceJoined ==
    (pc = "printed" /\ Len(arr.shape) = 1) =>
       LET line == JoinWith(<<" ">>, entries.flat)
       IN  IF bracket_inner_1D THEN out = << <<"[">> \o line \o <<"]">> >>
           ELSE /\ Len(out) = 3
                /\ \E v \in {"v", "vd"} : out[2] = <<v>> \o line \o <<v>>

(***************************************************************************)
(* C9: for an empty grid and for a grid of a single entry parr does not    *)
(* raise, whatever the options are.                                        *)
(***************************************************************************)
EmptyOrSingleResolves ==
    (/\ arr.isarray
     /\ arr.dtype \in Supported
     /\ Len(arr.text) <= 1
     /\ \A i \in DOMAIN arr.text : Conforms(arr.dtype, arr.text[i]))
       => pc # "raised"

(***************************************************************************)
(* C10: fmt_entries returns only if every text conforms in full to the     *)
(* grammar of the grid's kind, the extracted parts then making up the      *)
(* whole text.                                                             *)
(***************************************************************************)
NonconformingTextRejected ==
    Formatted =>
       \A i \in DOMAIN arr.text :
          /\ Conforms(arr.dtype, arr.text[i])
          /\ Concat(PartsOf(i)) = arr.text[i]

====
